---- MODULE Spec2Model ----
(***************************************************************************)
(* Model of ferrisetw's Provider (src/src/provider.rs) and of its version  *)
(* helper (src/src/native/version_helper.rs).                              *)
(*                                                                         *)
(*   SpecBuilder  the fluent configuration chain: new()/kernel(entry),     *)
(*                by_guid, by_name, any, all, level, trace_flags,          *)
(*                add_callback, build                                      *)
(*   Spec         the callback list behind Arc<RwLock<Vec<..>>>:           *)
(*                add_callback and on_event called from several threads    *)
(*   SpecVersion  verify_system_version and is_win8_or_greater             *)
(***************************************************************************)
EXTENDS Integers, Sequences, FiniteSets, TLC

(***************************************************************************)
(* Bounds of the model                                                     *)
(***************************************************************************)
\* number of threads that call add_callback / on_event
NumThreads == 2
\* number of add_callback calls that are started
MaxCallbacks == 3
\* number of records handed to on_event
MaxRecords == 2

Threads == 1..NumThreads

\* Option<T>
None == <<>>
Some(x) == <<x>>
is_none(o) == o = None

(***************************************************************************)
(* kernel_providers                                                        *)
(***************************************************************************)
kernel_guids ==
    [ ALPC_GUID               |-> "45d8cccd-539f-4b72-a8b7-5c683142609a",
      POWER_GUID              |-> "e43445e0-0903-48c3-b878-ff0fccebdd04",
      DEBUG_GUID              |-> "13976d09-a327-438c-950b-7f03192815c7",
      TCP_IP_GUID             |-> "9a280ac0-c8e0-11d1-84e2-00c04fb998a2",
      UDP_IP_GUID             |-> "bf3a50c5-a9c9-4988-a005-2df0b7c80f80",
      THREAD_GUID             |-> "3d6fa8d1-fe05-11d0-9dda-00c04fd7ba7c",
      DISK_IO_GUID            |-> "3d6fa8d4-fe05-11d0-9dda-00c04fd7ba7c",
      FILE_IO_GUID            |-> "90cbdc39-4a3e-11d1-84f4-0000f80464e3",
      PROCESS_GUID            |-> "3d6fa8d0-fe05-11d0-9dda-00c04fd7ba7c",
      REGISTRY_GUID           |-> "AE53722E-C863-11d2-8659-00C04FA321A1",
      SPLIT_IO_GUID           |-> "d837ca92-12b9-44a5-ad6a-3a65b3578aa8",
      OB_TRACE_GUID           |-> "89497f50-effe-4440-8cf2-ce6b1cdcaca7",
      UMS_EVENT_GUID          |-> "9aec974b-5b8e-4118-9b92-3186d8002ce5",
      PERF_INFO_GUID          |-> "ce1dbfb4-137e-4da6-87b0-3f59aa102cbc",
      PAGE_FAULT_GUID         |-> "3d6fa8d3-fe05-11d0-9dda-00c04fd7ba7c",
      IMAGE_LOAD_GUID         |-> "2cb15d1d-5fc1-11d2-abe1-00a0c911f518",
      POOL_TRACE_GUID         |-> "0268a8b6-74fd-4302-9dd0-6e8f1795c0cf",
      LOST_EVENT_GUID         |-> "6a399ae0-4bc6-4de9-870b-3657f8947e7e",
      STACK_WALK_GUID         |-> "def2fe46-7bd6-4b80-bd94-f57fe20d0ce3",
      EVENT_TRACE_GUID        |-> "68fdd900-4a3e-11d1-84f4-0000f80464e3",
      MMCSS_TRACE_GUID        |-> "f8f10121-b617-4a56-868b-9df1b27fe32c",
      SYSTEM_TRACE_GUID       |-> "9e814aad-3204-11d2-9a82-006008a86939",
      EVENT_TRACE_CONFIG_GUID |-> "01853a65-418f-4f36-aefc-dc0f1d2fd235" ]

\* the u32 flag values, in decimal
kernel_flags ==
    [ EVENT_TRACE_FLAG_PROCESS            |-> 1,
      EVENT_TRACE_FLAG_THREAD             |-> 2,
      EVENT_TRACE_FLAG_IMAGE_LOAD         |-> 4,
      EVENT_TRACE_FLAG_PROCESS_COUNTERS   |-> 8,
      EVENT_TRACE_FLAG_CSWITCH            |-> 16,
      EVENT_TRACE_FLAG_DPC                |-> 32,
      EVENT_TRACE_FLAG_INTERRUPT          |-> 64,
      EVENT_TRACE_FLAG_SYSTEMCALL         |-> 128,
      EVENT_TRACE_FLAG_DISK_IO            |-> 256,
      EVENT_TRACE_FLAG_DISK_FILE_IO       |-> 512,
      EVENT_TRACE_FLAG_DISK_IO_INIT       |-> 1024,
      EVENT_TRACE_FLAG_DISPATCHER         |-> 2048,
      EVENT_TRACE_FLAG_MEMORY_PAGE_FAULTS |-> 4096,
      EVENT_TRACE_FLAG_MEMORY_HARD_FAULTS |-> 8192,
      EVENT_TRACE_FLAG_VIRTUAL_ALLOC      |-> 16384,
      EVENT_TRACE_FLAG_VAMAP              |-> 32768,
      EVENT_TRACE_FLAG_NETWORK_TCPIP      |-> 65536,
      EVENT_TRACE_FLAG_REGISTRY           |-> 131072,
      EVENT_TRACE_FLAG_DBGPRINT           |-> 262144,
      EVENT_TRACE_FLAG_ALPC               |-> 1048576,
      EVENT_TRACE_FLAG_SPLIT_IO           |-> 2097152,
      EVENT_TRACE_FLAG_DRIVER             |-> 8388608,
      EVENT_TRACE_FLAG_PROFILE            |-> 16777216,
      EVENT_TRACE_FLAG_FILE_IO            |-> 33554432,
      EVENT_TRACE_FLAG_FILE_IO_INIT       |-> 67108864 ]

\* Guid::from(&str) (windows crate): the texts used in this model are pairwise
\* different GUIDs, so a parsed Guid is represented by the text it came from,
\* tagged to keep Guid values apart from the strings they are parsed from.
GuidFrom(s) == [data |-> s]

\* KernelProvider::new(guid, flags)
KernelProvider(guidStr, flagBits) == [guid |-> GuidFrom(guidStr), flags |-> flagBits]

\* the lazy_static! catalog, one entry per static
kernel_providers ==
    [ VIRTUAL_ALLOC_PROVIDER     |-> KernelProvider(kernel_guids.PAGE_FAULT_GUID, kernel_flags.EVENT_TRACE_FLAG_VIRTUAL_ALLOC),
      VAMAP_PROVIDER             |-> KernelProvider(kernel_guids.FILE_IO_GUID, kernel_flags.EVENT_TRACE_FLAG_VAMAP),
      THREAD_PROVIDER            |-> KernelProvider(kernel_guids.THREAD_GUID, kernel_flags.EVENT_TRACE_FLAG_THREAD),
      SPLIT_IO_PROVIDER          |-> KernelProvider(kernel_guids.SPLIT_IO_GUID, kernel_flags.EVENT_TRACE_FLAG_SPLIT_IO),
      SYSTEM_CALL_PROVIDER       |-> KernelProvider(kernel_guids.PERF_INFO_GUID, kernel_flags.EVENT_TRACE_FLAG_SYSTEMCALL),
      REGISTRY_PROVIDER          |-> KernelProvider(kernel_guids.REGISTRY_GUID, kernel_flags.EVENT_TRACE_FLAG_REGISTRY),
      PROFILE_PROVIDER           |-> KernelProvider(kernel_guids.PERF_INFO_GUID, kernel_flags.EVENT_TRACE_FLAG_PROFILE),
      PROCESS_COUNTER_PROVIDER   |-> KernelProvider(kernel_guids.PROCESS_GUID, kernel_flags.EVENT_TRACE_FLAG_PROCESS_COUNTERS),
      PROCESS_PROVIDER           |-> KernelProvider(kernel_guids.PROCESS_GUID, kernel_flags.EVENT_TRACE_FLAG_PROCESS),
      TCP_IP_PROVIDER            |-> KernelProvider(kernel_guids.TCP_IP_GUID, kernel_flags.EVENT_TRACE_FLAG_NETWORK_TCPIP),
      MEMORY_PAGE_FAULT_PROVIDER |-> KernelProvider(kernel_guids.PAGE_FAULT_GUID, kernel_flags.EVENT_TRACE_FLAG_MEMORY_PAGE_FAULTS),
      MEMORY_HARD_FAULT_PROVIDER |-> KernelProvider(kernel_guids.PAGE_FAULT_GUID, kernel_flags.EVENT_TRACE_FLAG_MEMORY_HARD_FAULTS),
      INTERRUPT_PROVIDER         |-> KernelProvider(kernel_guids.PERF_INFO_GUID, kernel_flags.EVENT_TRACE_FLAG_INTERRUPT),
      DRIVER_PROVIDER            |-> KernelProvider(kernel_guids.DISK_IO_GUID, kernel_flags.EVENT_TRACE_FLAG_DISK_IO),
      DPC_PROVIDER               |-> KernelProvider(kernel_guids.PERF_INFO_GUID, kernel_flags.EVENT_TRACE_FLAG_DPC),
      IMAGE_LOAD_PROVIDER        |-> KernelProvider(kernel_guids.IMAGE_LOAD_GUID, kernel_flags.EVENT_TRACE_FLAG_IMAGE_LOAD),
      THREAD_DISPATCHER_PROVIDER |-> KernelProvider(kernel_guids.THREAD_GUID, kernel_flags.EVENT_TRACE_FLAG_DISPATCHER),
      FILE_INIT_IO_PROVIDER      |-> KernelProvider(kernel_guids.FILE_IO_GUID, kernel_flags.EVENT_TRACE_FLAG_FILE_IO_INIT),
      FILE_IO_PROVIDER           |-> KernelProvider(kernel_guids.FILE_IO_GUID, kernel_flags.EVENT_TRACE_FLAG_FILE_IO),
      DISK_IO_INIT_PROVIDER      |-> KernelProvider(kernel_guids.DISK_IO_GUID, kernel_flags.EVENT_TRACE_FLAG_DISK_IO_INIT),
      DISK_IO_PROVIDER           |-> KernelProvider(kernel_guids.DISK_IO_GUID, kernel_flags.EVENT_TRACE_FLAG_DISK_IO),
      DISK_FILE_IO_PROVIDER      |-> KernelProvider(kernel_guids.DISK_IO_GUID, kernel_flags.EVENT_TRACE_FLAG_DISK_FILE_IO),
      DEBUG_PRINT_PROVIDER       |-> KernelProvider(kernel_guids.DEBUG_GUID, kernel_flags.EVENT_TRACE_FLAG_DBGPRINT),
      CONTEXT_SWITCH_PROVIDER    |-> KernelProvider(kernel_guids.THREAD_GUID, kernel_flags.EVENT_TRACE_FLAG_CSWITCH),
      ALPC_PROVIDER              |-> KernelProvider(kernel_guids.ALPC_GUID, kernel_flags.EVENT_TRACE_FLAG_ALPC) ]

KernelEntryNames == DOMAIN kernel_providers

(***************************************************************************)
(* Arguments the calls are made with                                       *)
(***************************************************************************)
GuidArgs == {"22fb2cd6-0e7b-422b-a0c7-2fad1fd0e716", kernel_guids.IMAGE_LOAD_GUID}
NameArgs == {"Microsoft-Windows-WinINet"}
\* what pla::get_provider_guid(&name) may answer
LookupResults == {[ok |-> TRUE, guid |-> GuidFrom("43d1a55c-76d6-4f7e-995c-64c711e5cafe")],
                  [ok |-> FALSE, guid |-> None]}
AnyArgs == {0, 6547}
AllArgs == {0, 4866}
LevelArgs == {1, 5}
TraceFlagArgs == {0, 100}

(***************************************************************************)
(* State                                                                   *)
(***************************************************************************)
VARIABLES
    \* struct Provider
    guid, any, all, level, trace_flags, flags,
    \* Provider::callbacks: the Vec, and the RwLock around it
    callbacks, poisoned, lockHolder,
    \* the configuration chain: "config", "built" (build gave Ok),
    \* "failed" (build gave Err and consumed the Provider)
    phase,
    \* history of the chain: the catalog entry given to kernel() ("none" after
    \* new()), whether by_guid or by_name was called, the last call and what
    \* its caller received
    kernelEntry, identityCalled, lastCall,
    \* threads calling add_callback and on_event
    pc, arg, record, idx, atCall, invoked, panicAt, delivery,
    \* (arg: the consumer given to add_callback; record: the record given to
    \* on_event; atCall: the lengths of callbacks and of returnedAdds when the thread's
    \* on_event was called; invoked: the <<consumer, record>> calls it made;
    \* panicAt: the position of the callback that panicked, 0 if none)
    \* consumers handed to add_callback so far, those whose add_callback has
    \* returned (in return order), and the records delivered so far
    nextId, returnedAdds, delivered,
    \* version helper: the running OS, the request, whether VerifyVersionInfoA
    \* failed, the value of verify_system_version, the value of
    \* is_win8_or_greater
    os, request, apiFailed, verified, win8

providerVars == <<guid, any, all, level, trace_flags, flags>>
lockVars == <<callbacks, poisoned, lockHolder>>
chainVars == <<phase, kernelEntry, identityCalled, lastCall>>
threadVars == <<pc, arg, record, idx, atCall, invoked, panicAt, delivery>>
countVars == <<nextId, returnedAdds, delivered>>
versionVars == <<os, request, apiFailed, verified, win8>>
vars == <<providerVars, lockVars, chainVars, threadVars, countVars, versionVars>>

Call(op, lookup, ret) == [op |-> op, lookup |-> lookup, ret |-> ret]
\* a call of one of the field setters, with the value it was given
SetterCall(op, v) == [op |-> op, lookup |-> "none", ret |-> "Self", value |-> v]

(***************************************************************************)
(* Constructors                                                            *)
(***************************************************************************)
\* Provider::new()
New ==
    /\ guid = None
    /\ any = 0
    /\ all = 0
    /\ level = 5
    /\ trace_flags = 0
    /\ flags = 0
    /\ callbacks = <<>>
    /\ poisoned = FALSE
    /\ lockHolder = 0
    /\ kernelEntry = "none"
    /\ lastCall = Call("new", "none", "Self")

\* Provider::kernel(&kernel_provider)
Kernel(entry) ==
    /\ guid = Some(kernel_providers[entry].guid)
    /\ any = 0
    /\ all = 0
    /\ level = 5
    /\ trace_flags = 0
    /\ flags = kernel_providers[entry].flags
    /\ callbacks = <<>>
    /\ poisoned = FALSE
    /\ lockHolder = 0
    /\ kernelEntry = entry
    /\ lastCall = Call("kernel", "none", "Self")

\* no call is in progress and none has been made
InitCalls ==
    /\ phase = "config"
    /\ identityCalled = FALSE
    /\ pc = [t \in Threads |-> "idle"]
    /\ arg = [t \in Threads |-> 0]
    /\ record = [t \in Threads |-> 0]
    /\ idx = [t \in Threads |-> 0]
    /\ atCall = [t \in Threads |-> [registered |-> 0, returned |-> 0]]
    /\ invoked = [t \in Threads |-> <<>>]
    /\ panicAt = [t \in Threads |-> 0]
    /\ delivery = [t \in Threads |-> "none"]
    /\ nextId = 1
    /\ returnedAdds = <<>>
    /\ delivered = 0

NoVersionCall ==
    /\ request = None
    /\ apiFailed = FALSE
    /\ verified = None
    /\ win8 = None

(***************************************************************************)
(* The configuration chain. Every method takes self by value, so the chain *)
(* is sequential: thread 1 is the thread that owns the Provider.           *)
(***************************************************************************)
Owner == CHOOSE t \in Threads : \A u \in Threads : t <= u
Configuring == phase = "config" /\ pc[Owner] = "idle"

\* Provider::by_guid
ByGuid(s) ==
    /\ Configuring
    /\ guid' = Some(GuidFrom(s))
    /\ identityCalled' = TRUE
    /\ lastCall' = Call("by_guid", "none", "Self")
    /\ UNCHANGED <<any, all, level, trace_flags, flags, lockVars, phase, kernelEntry,
                   threadVars, countVars, versionVars>>

\* Provider::by_name
ByName(name, res) ==
    /\ Configuring
    /\ guid' = IF res.ok THEN Some(res.guid) ELSE None
    /\ identityCalled' = TRUE
    /\ lastCall' = Call("by_name", IF res.ok THEN "Ok" ELSE "Err", "Self")
    /\ UNCHANGED <<any, all, level, trace_flags, flags, lockVars, phase, kernelEntry,
                   threadVars, countVars, versionVars>>

\* Provider::any
SetAny(v) ==
    /\ Configuring
    /\ any' = v
    /\ lastCall' = SetterCall("any", v)
    /\ UNCHANGED <<guid, all, level, trace_flags, flags, lockVars, phase, kernelEntry,
                   identityCalled, threadVars, countVars, versionVars>>

\* all written to the any field
SetAll_IntoAny(v) ==
    /\ Configuring
    /\ any' = v
    /\ lastCall' = SetterCall("all", v)
    /\ UNCHANGED <<guid, all, level, trace_flags, flags, lockVars, phase, kernelEntry,
                   identityCalled, threadVars, countVars, versionVars>>

\* Provider::all
SetAll(v) ==
    /\ Configuring
    /\ all' = v
    /\ lastCall' = SetterCall("all", v)
    /\ UNCHANGED <<guid, any, level, trace_flags, flags, lockVars, phase, kernelEntry,
                   identityCalled, threadVars, countVars, versionVars>>

\* Provider::level
SetLevel(v) ==
    /\ Configuring
    /\ level' = v
    /\ lastCall' = SetterCall("level", v)
    /\ UNCHANGED <<guid, any, all, trace_flags, flags, lockVars, phase, kernelEntry,
                   identityCalled, threadVars, countVars, versionVars>>

\* trace_flags written to the kernel flags field
SetTraceFlags_IntoFlags(v) ==
    /\ Configuring
    /\ flags' = v
    /\ lastCall' = SetterCall("trace_flags", v)
    /\ UNCHANGED <<guid, any, all, level, trace_flags, lockVars, phase, kernelEntry,
                   identityCalled, threadVars, countVars, versionVars>>

\* Provider::trace_flags
SetTraceFlags(v) ==
    /\ Configuring
    /\ trace_flags' = v
    /\ lastCall' = SetterCall("trace_flags", v)
    /\ UNCHANGED <<guid, any, all, level, flags, lockVars, phase, kernelEntry,
                   identityCalled, threadVars, countVars, versionVars>>

\* Provider::build
Build ==
    /\ Configuring
    /\ IF is_none(guid)
          THEN /\ phase' = "failed"
               /\ lastCall' = Call("build", "none", "Err(NoGuid)")
          ELSE /\ phase' = "built"
               /\ lastCall' = Call("build", "none", "Ok(Self)")
    /\ UNCHANGED <<providerVars, lockVars, kernelEntry, identityCalled,
                   threadVars, countVars, versionVars>>

(***************************************************************************)
(* add_callback and on_event. Both take the write lock of the RwLock:      *)
(* write() waits while the lock is held; on a poisoned lock it returns Err *)
(* (the guard inside the error is dropped at once), and `if let Ok` then   *)
(* skips the body.                                                         *)
(***************************************************************************)
\* a thread calls add_callback with a new consumer
AddCallbackCall(t) ==
    /\ pc[t] = "idle"
    /\ phase # "failed"
    /\ nextId <= MaxCallbacks
    /\ pc' = [pc EXCEPT ![t] = "add_callback"]
    /\ arg' = [arg EXCEPT ![t] = nextId]
    /\ nextId' = nextId + 1
    /\ UNCHANGED <<providerVars, lockVars, chainVars, record, idx, atCall, invoked, panicAt,
                   delivery, returnedAdds, delivered, versionVars>>

\* Provider::add_callback: self.callbacks.write(), push, return self
AddCallbackWrite(t) ==
    /\ pc[t] = "add_callback"
    /\ lockHolder = 0
    /\ callbacks' = IF poisoned THEN callbacks ELSE Append(callbacks, arg[t])
    /\ returnedAdds' = Append(returnedAdds, arg[t])
    /\ lastCall' = Call("add_callback", "none", "Self")
    /\ pc' = [pc EXCEPT ![t] = "idle"]
    /\ UNCHANGED <<providerVars, poisoned, lockHolder, phase, kernelEntry, identityCalled,
                   arg, record, idx, atCall, invoked, panicAt, delivery, nextId, delivered,
                   versionVars>>

\* a thread calls on_event with the next record
OnEventCall(t) ==
    /\ pc[t] = "idle"
    /\ phase # "failed"
    /\ delivered < MaxRecords
    /\ delivered' = delivered + 1
    /\ pc' = [pc EXCEPT ![t] = "on_event"]
    /\ record' = [record EXCEPT ![t] = delivered + 1]
    /\ atCall' = [atCall EXCEPT ![t] = [registered |-> Len(callbacks),
                                          returned |-> Len(returnedAdds)]]
    /\ invoked' = [invoked EXCEPT ![t] = <<>>]
    /\ panicAt' = [panicAt EXCEPT ![t] = 0]
    /\ delivery' = [delivery EXCEPT ![t] = "running"]
    /\ UNCHANGED <<providerVars, lockVars, chainVars, arg, idx, nextId, returnedAdds,
                   versionVars>>

\* Provider::on_event: self.callbacks.write()
OnEventWrite(t) ==
    /\ pc[t] = "on_event"
    /\ lockHolder = 0
    /\ IF poisoned
          THEN /\ pc' = [pc EXCEPT ![t] = "idle"]
               /\ delivery' = [delivery EXCEPT ![t] = "returned"]
               /\ UNCHANGED <<lockHolder, idx>>
          ELSE /\ pc' = [pc EXCEPT ![t] = "iter_mut"]
               /\ lockHolder' = t
               /\ idx' = [idx EXCEPT ![t] = 1]
               /\ UNCHANGED delivery
    /\ UNCHANGED <<providerVars, callbacks, poisoned, chainVars, arg, record, atCall, invoked,
                   panicAt, nextId, returnedAdds, delivered, versionVars>>

\* Provider::on_event: for_each calls the next callback, cb(record, locator)
OnEventInvoke(t) ==
    /\ pc[t] = "iter_mut"
    /\ idx[t] <= Len(callbacks)
    /\ pc' = [pc EXCEPT ![t] = "cb"]
    /\ invoked' = [invoked EXCEPT ![t] = Append(@, <<callbacks[idx[t]], record[t]>>)]
    /\ UNCHANGED <<providerVars, lockVars, chainVars, arg, record, idx, atCall, panicAt, delivery,
                   countVars, versionVars>>

\* the callback returns
CallbackReturn(t) ==
    /\ pc[t] = "cb"
    /\ pc' = [pc EXCEPT ![t] = "iter_mut"]
    /\ idx' = [idx EXCEPT ![t] = @ + 1]
    /\ UNCHANGED <<providerVars, lockVars, chainVars, arg, record, atCall, invoked, panicAt,
                   delivery, countVars, versionVars>>

\* the callback panics and the lock is released without being poisoned
CallbackPanic_NoPoison(t) ==
    /\ pc[t] = "cb"
    /\ pc' = [pc EXCEPT ![t] = "panicked"]
    /\ panicAt' = [panicAt EXCEPT ![t] = idx[t]]
    /\ delivery' = [delivery EXCEPT ![t] = "panicked"]
    /\ lockHolder' = 0
    /\ UNCHANGED <<providerVars, callbacks, poisoned, chainVars, arg, record, idx,
                   atCall, invoked, countVars, versionVars>>

\* the callback panics: nothing in on_event catches it, the write guard is
\* dropped while unwinding (which poisons the lock) and the panic goes on
\* into the caller of on_event
CallbackPanic(t) ==
    /\ pc[t] = "cb"
    /\ pc' = [pc EXCEPT ![t] = "panicked"]
    /\ panicAt' = [panicAt EXCEPT ![t] = idx[t]]
    /\ delivery' = [delivery EXCEPT ![t] = "panicked"]
    /\ poisoned' = TRUE
    /\ lockHolder' = 0
    /\ UNCHANGED <<providerVars, callbacks, chainVars, arg, record, idx, atCall, invoked,
                   countVars, versionVars>>

\* the iteration is over and the guard is kept
OnEventReturn_KeepsLock(t) ==
    /\ pc[t] = "iter_mut"
    /\ idx[t] > Len(callbacks)
    /\ pc' = [pc EXCEPT ![t] = "idle"]
    /\ delivery' = [delivery EXCEPT ![t] = "returned"]
    /\ UNCHANGED <<providerVars, lockVars, chainVars, arg, record, idx, atCall,
                   invoked, panicAt, countVars, versionVars>>

\* Provider::on_event: the iteration is over, the guard is dropped
OnEventReturn(t) ==
    /\ pc[t] = "iter_mut"
    /\ idx[t] > Len(callbacks)
    /\ pc' = [pc EXCEPT ![t] = "idle"]
    /\ delivery' = [delivery EXCEPT ![t] = "returned"]
    /\ lockHolder' = 0
    /\ UNCHANGED <<providerVars, callbacks, poisoned, chainVars, arg, record, idx, atCall,
                   invoked, panicAt, countVars, versionVars>>

(***************************************************************************)
(* version_helper                                                          *)
(***************************************************************************)
OsVersions == [major : {5, 6, 10}, minor : {0, 1, 2, 3}, sp : {0, 1, 2}]
Requests == {<<5, 1, 0>>, <<6, 2, 0>>, <<6, 1, 1>>, <<10, 0, 0>>, <<99, 0, 0>>}
\* the OS the Provider specifications run on
HostOs == [major |-> 10, minor |-> 0, sp |-> 0]

\* OsVersionInfo::default() and the four assignments of verify_system_version
OsVersionInfo(major, minor, sp_major) ==
    LET v0 == [dwMajorVersion |-> 0, dwMinorVersion |-> 0, wServicePackMajor |-> 0]
        v1 == [v0 EXCEPT !.dwMajorVersion = major]
        v2 == [v1 EXCEPT !.dwMajorVersion = minor]
        v3 == [v2 EXCEPT !.wServicePackMajor = sp_major]
    IN  v3

\* VerifyVersionInfoA with VER_MAJORVERSION | VER_MINORVERSION |
\* VER_SERVICEPACKMAJOR, each under VER_GREATER_EQUAL: the components are
\* compared in that order, a later one only when the earlier ones are equal.
\* The BOOL is also FALSE when the call itself fails.
VerifyVersionInfoA(running, info, failed) ==
    IF failed THEN FALSE
    ELSE \/ running.major > info.dwMajorVersion
         \/ /\ running.major = info.dwMajorVersion
            /\ \/ running.minor > info.dwMinorVersion
               \/ /\ running.minor = info.dwMinorVersion
                  /\ running.sp >= info.wServicePackMajor

\* verify_system_version: always Ok(..)
verify_system_version(running, major, minor, sp_major, failed) ==
    [ok |-> TRUE,
     value |-> VerifyVersionInfoA(running, OsVersionInfo(major, minor, sp_major), failed)]

\* is_win8_or_greater
is_win8_or_greater(running, failed) ==
    LET res == verify_system_version(running, 6, 2, 0, failed)
    IN  IF res.ok THEN res.value ELSE TRUE

\* a call of verify_system_version(major, minor, sp_major)
VerifySystemVersion(req, failed) ==
    /\ request' = Some(req)
    /\ apiFailed' = failed
    /\ verified' = Some(verify_system_version(os, req[1], req[2], req[3], failed))
    /\ win8' = None
    /\ UNCHANGED <<providerVars, lockVars, chainVars, threadVars, countVars, os>>

\* a call of is_win8_or_greater()
IsWin8OrGreater(failed) ==
    /\ request' = Some(<<6, 2, 0>>)
    /\ apiFailed' = failed
    /\ verified' = Some(verify_system_version(os, 6, 2, 0, failed))
    /\ win8' = Some(is_win8_or_greater(os, failed))
    /\ UNCHANGED <<providerVars, lockVars, chainVars, threadVars, countVars, os>>

(***************************************************************************)
(* Specifications                                                          *)
(***************************************************************************)
\* a Provider made by new(), shared by the threads
Init ==
    /\ New
    /\ InitCalls
    /\ NoVersionCall
    /\ os = HostOs

Next ==
    \E t \in Threads :
        \/ AddCallbackCall(t)
        \/ AddCallbackWrite(t)
        \/ OnEventCall(t)
        \/ OnEventWrite(t)
        \/ OnEventInvoke(t)
        \/ CallbackReturn(t)
        \/ CallbackPanic(t)
        \/ OnEventReturn(t)

Spec == Init /\ [][Next]_vars

\* the same under fair scheduling: a thread that can take a step of a call it
\* is in takes it eventually (a waiting write() gets the lock once it stays
\* free, for_each goes on, a callback that does not panic returns). Whether a
\* call is made, and whether a callback panics, is left open.
Fairness ==
    \A t \in Threads :
        /\ WF_vars(AddCallbackWrite(t))
        /\ WF_vars(OnEventWrite(t))
        /\ WF_vars(OnEventInvoke(t))
        /\ WF_vars(CallbackReturn(t))
        /\ WF_vars(OnEventReturn(t))

SpecFair == Init /\ [][Next]_vars /\ Fairness

\* a configuration chain that starts with new() or kernel(entry)
InitBuilder ==
    /\ New \/ \E entry \in KernelEntryNames : Kernel(entry)
    /\ InitCalls
    /\ NoVersionCall
    /\ os = HostOs

NextBuilder ==
    \/ \E s \in GuidArgs : ByGuid(s)
    \/ \E name \in NameArgs, res \in LookupResults : ByName(name, res)
    \/ \E v \in AnyArgs : SetAny(v)
    \/ \E v \in AllArgs : SetAll(v)
    \/ \E v \in LevelArgs : SetLevel(v)
    \/ \E v \in TraceFlagArgs : SetTraceFlags(v)
    \/ AddCallbackCall(Owner)
    \/ AddCallbackWrite(Owner)
    \/ Build

SpecBuilder == InitBuilder /\ [][NextBuilder]_vars

\* the version helper on some OS
InitVersion ==
    /\ New
    /\ InitCalls
    /\ NoVersionCall
    /\ os \in OsVersions

NextVersion ==
    \/ \E req \in Requests, failed \in BOOLEAN : VerifySystemVersion(req, failed)
    \/ \E failed \in BOOLEAN : IsWin8OrGreater(failed)

SpecVersion == InitVersion /\ [][NextVersion]_vars

(***************************************************************************)
(* Properties                                                              *)
(***************************************************************************)
IsPrefix(a, b) == Len(a) <= Len(b) /\ SubSeq(b, 1, Len(a)) = a
\* the on_event call of thread t is over
Ended(t) == delivery[t] \in {"returned", "panicked"}
\* the consumers the delivery of thread t invoked, in order
InvokedConsumers(t) == [i \in 1..Len(invoked[t]) |-> invoked[t][i][1]]
\* the list as it was when thread t called on_event (the Vec only grows)
RegisteredAtCall(t) == SubSeq(callbacks, 1, atCall[t].registered)
\* the consumers whose add_callback had returned when thread t called on_event
ReturnedAtCall(t) == SubSeq(returnedAdds, 1, atCall[t].returned)
\* the catalog entry the Provider was made from
Entry == kernel_providers[kernelEntry]

\* C1: a delivery that is over has invoked every consumer that was registered
\* when on_event was called, once each, in registration order and before any
\* consumer registered later, each with the record of that delivery.
C1_DeliverInvokesAllInOrder ==
    \A t \in Threads :
        Ended(t) =>
            /\ IsPrefix(RegisteredAtCall(t), InvokedConsumers(t))
            /\ IsPrefix(InvokedConsumers(t), callbacks)
            /\ \A i \in 1..Len(invoked[t]) : invoked[t][i][2] = record[t]

\* C2: when a consumer panics in a delivery, the thread that called on_event
\* does not receive the panic, and once that delivery is over every consumer
\* registered after the panicking one has been invoked with the same record.
C2_PanicIsIsolated ==
    \A t \in Threads :
        panicAt[t] # 0 =>
            /\ pc[t] # "panicked"
            /\ Ended(t) =>
                  \A i \in (panicAt[t] + 1)..atCall[t].registered :
                      \E j \in 1..Len(invoked[t]) :
                          invoked[t][j] = <<callbacks[i], record[t]>>

\* C3: build() gives Err(NoGuid) exactly when the chain holds no
\* identity-setting call (kernel, by_guid, by_name), and gives Ok with the
\* identity set otherwise.
C3_BuildFailsIffNoIdentityCall ==
    phase # "config" =>
        /\ phase = "failed" <=> (kernelEntry = "none" /\ ~identityCalled)
        /\ phase = "built" => ~is_none(guid)

\* the running OS is at least major.minor with service pack sp_major, the
\* components compared with >= in the order the OS compares them
OsAtLeast(running, req) ==
    \/ running.major > req[1]
    \/ /\ running.major = req[1]
       /\ \/ running.minor > req[2]
          \/ running.minor = req[2] /\ running.sp >= req[3]

\* C4: when the OS call works, verify_system_version(major, minor, sp_major)
\* is true exactly when the running OS is at least that version.
C4_VerifyIsAtLeast ==
    (verified # None /\ ~apiFailed) =>
        /\ verified[1].ok
        /\ verified[1].value = OsAtLeast(os, request[1])

\* C5: no two different catalog entries have the same (GUID, flag) pair:
\* whichever entry a Provider is made from, no other entry of the catalog
\* has that entry's pair.
C5_CatalogPairsDistinct ==
    \A e1, e2 \in KernelEntryNames :
        (kernelEntry = e1 /\ e1 # e2) =>
            <<kernel_providers[e1].guid, kernel_providers[e1].flags>>
                # <<kernel_providers[e2].guid, kernel_providers[e2].flags>>

\* C6: a delivery that is over has invoked every consumer whose add_callback
\* had returned before on_event was called, no consumer twice, and only
\* consumers that were handed to add_callback.
C6_DeliverySeesConsistentList ==
    \A t \in Threads :
        Ended(t) =>
            /\ \A i \in 1..Len(ReturnedAtCall(t)) :
                   \E j \in 1..Len(invoked[t]) : invoked[t][j][1] = ReturnedAtCall(t)[i]
            /\ \A i, j \in 1..Len(invoked[t]) :
                   invoked[t][i][1] = invoked[t][j][1] => i = j
            /\ \A i \in 1..Len(invoked[t]) : invoked[t][i][1] \in 1..(nextId - 1)

\* C7: after a by_name whose lookup failed the identity is unset and the
\* caller has received an explicit NameResolutionFailed error.
C7_LookupFailureSurfaced ==
    (lastCall.op = "by_name" /\ lastCall.lookup = "Err") =>
        /\ is_none(guid)
        /\ lastCall.ret = "Err(NameResolutionFailed)"

\* C8: when VerifyVersionInfoA fails, verify_system_version gives an explicit
\* failure value and is_win8_or_greater does not answer true.
C8_VersionFailureIsExplicit ==
    (verified # None /\ apiFailed) =>
        /\ ~verified[1].ok
        /\ win8 # Some(TRUE)

\* C9 as stated: a Provider made by kernel(entry) carries the entry's flags
\* and the entry's GUID in every state of the chain.
C9_KernelBindingAlways ==
    kernelEntry # "none" =>
        /\ flags = Entry.flags
        /\ guid = Some(Entry.guid)

\* C9 as amended: a Provider made by kernel(entry) carries the entry's flags
\* in every state of the chain, and the entry's GUID as long as the chain
\* holds no by_guid and no by_name call; build() then gives Ok.
C9_KernelBindingUntilRebound ==
    kernelEntry # "none" =>
        /\ flags = Entry.flags
        /\ ~identityCalled => (guid = Some(Entry.guid) /\ phase # "failed")

\* a kernel(entry) chain with setter calls and an add_callback, no by_guid or
\* by_name, after build()
C9_Witness ==
    /\ kernelEntry = "IMAGE_LOAD_PROVIDER"
    /\ ~identityCalled
    /\ phase = "built"
    /\ trace_flags = 100
    /\ any = 6547
    /\ Len(callbacks) = 1
    /\ flags = kernel_flags.EVENT_TRACE_FLAG_IMAGE_LOAD
    /\ guid = Some(GuidFrom(kernel_guids.IMAGE_LOAD_GUID))

\* C10: every add_callback that has returned appended its consumer at the
\* end of the list: the list is the consumers of the returned calls, in
\* return order.
C10_AddCallbackAppends ==
    callbacks = returnedAdds

\* the field a setter is named after
SetterField(op) ==
    CASE op = "any" -> any
      [] op = "all" -> all
      [] op = "level" -> level
      [] op = "trace_flags" -> trace_flags
SetterOps == {"any", "all", "level", "trace_flags"}

\* a step that is a call of a setter: the last call changes to a setter call
SetterStep == lastCall' # lastCall /\ lastCall'.op \in SetterOps

\* C11: a call of any, all, level or trace_flags returns the Provider, leaves
\* its own field at the given value and leaves the identity, the other three
\* of these fields, the kernel flags and the consumer list as they were; a
\* Provider just made by new() has no identity, any = all = 0, trace and
\* kernel flags 0 and level 5.
C11_SettersSetOnlyTheirField ==
    /\ [](lastCall.op = "new" =>
            /\ is_none(guid) /\ any = 0 /\ all = 0
            /\ trace_flags = 0 /\ flags = 0 /\ level = 5)
    /\ [][SetterStep =>
            /\ lastCall'.ret = "Self"
            /\ \A op \in SetterOps :
                   IF op = lastCall'.op
                      THEN SetterField(op)' = lastCall'.value
                      ELSE SetterField(op)' = SetterField(op)
            /\ UNCHANGED <<guid, flags, callbacks, poisoned, phase>>]_vars

\* a chain in which every setter was called with a value other than the
\* default, on a Provider with an identity and a consumer; level was last
C11_Witness ==
    /\ lastCall.op = "level" /\ lastCall.value = 1 /\ level = 1
    /\ any = 6547 /\ all = 4866 /\ trace_flags = 100
    /\ ~is_none(guid)
    /\ Len(callbacks) = 1

\* thread t is inside the iteration of on_event
Iterating(t) == pc[t] \in {"iter_mut", "cb"}

\* C12: on_event takes a shared lock: while one delivery is iterating and no
\* add_callback is in flight, another thread that has called on_event can
\* take the lock at once, it does not wait for the first to finish.
C12_DeliveriesDoNotWait ==
    \A t, u \in Threads :
        (/\ t # u
         /\ Iterating(t)
         /\ pc[u] = "on_event"
         /\ \A w \in Threads : pc[w] # "add_callback")
            => ENABLED OnEventWrite(u)

\* C13: no callback is executing while the thread that invoked it holds the
\* lock of the consumer list.
C13_NoLockAcrossCallback ==
    \A t \in Threads : pc[t] = "cb" => lockHolder # t

\* thread t is inside a call of add_callback or on_event
InCall(t) == pc[t] \in {"add_callback", "on_event", "iter_mut", "cb"}

\* C14: under fair scheduling, if no consumer invocation fails to return
\* (none panics), every add_callback call and every on_event call that a
\* thread is in returns eventually.
C14_EveryCallReturns ==
    [](\A t \in Threads : pc[t] # "panicked")
        => \A t \in Threads : InCall(t) ~> (pc[t] = "idle")

\* a thread waits in add_callback for the lock that another thread holds
\* while one of its callbacks runs; nothing has panicked
C14_Witness ==
    /\ ~poisoned
    /\ \E t, u \in Threads :
          /\ pc[t] = "cb" /\ lockHolder = t
          /\ pc[u] = "add_callback"

\* a consumer has panicked during a delivery
SomePanicked == \E t \in Threads : panicAt[t] # 0

\* C15: from the first panic of a consumer on, the lock is poisoned and free
\* and stays poisoned; from then on no step invokes a consumer or changes the
\* list, and a thread waiting in write() of on_event or add_callback goes
\* straight back to its caller (no error value, no panic).
C15_PoisonedForGood ==
    /\ [](SomePanicked <=> poisoned)
    /\ [](poisoned => (lockHolder = 0 /\ \A t \in Threads : ~Iterating(t)))
    /\ [][poisoned =>
            /\ poisoned'
            /\ callbacks' = callbacks
            /\ \A t \in Threads :
                  /\ Len(invoked'[t]) <= Len(invoked[t])
                  /\ (pc[t] = "add_callback" /\ pc'[t] # pc[t])
                        => (pc'[t] = "idle" /\ lastCall'.ret = "Self")
                  /\ (pc[t] = "on_event" /\ pc'[t] # pc[t])
                        => /\ pc'[t] = "idle"
                           /\ delivery'[t] = "returned"
                           /\ invoked'[t] = <<>>]_vars

\* after a panic: a delivery called on a non-empty list has returned without
\* invoking anyone, and an add_callback has returned without appending
C15_Witness ==
    /\ poisoned
    /\ \E t \in Threads :
          /\ delivery[t] = "returned"
          /\ atCall[t].registered >= 1
          /\ invoked[t] = <<>>
          /\ pc[t] = "idle"
    /\ Len(returnedAdds) > Len(callbacks)

====
